---- MODULE Spec2Model ----
(***************************************************************************)
(* The streaming subscription of coincap-go: Client.subscribe and the      *)
(* message handler of SubscribeTrades (src/coincap.go), together with the  *)
(* three parties it talks to: the socket.io transport (Dial, On, Close and *)
(* the events it reports), the caller that drives stopChan, and the        *)
(* consumer that reads dataChan.                                           *)
(***************************************************************************)
EXTENDS Integers, Sequences, FiniteSets, TLC

\* Bounds of the model.
MaxSignals == 2     \* values the caller sends on stopChan
MaxMsgs == 2        \* events the transport dispatches to the message handler
MaxErrs == 1        \* "error" events the transport reports

\* make(chan error, 2)
errChCap == 2

Sessions == 1..(MaxSignals + 1)
Msgs == 1..MaxMsgs

\* The event names the three handlers are registered under.
OnDisconnection == "disconnection"
OnError == "error"
method == "trades"

VARIABLES
    pc,           \* where subscribe is: "loop", "onDisconnection", "onError",
                  \* "onMethod", "select", "defer", "done"
    attempts,     \* calls of doConnect so far
    created,      \* sessions gosio.Dial has returned so far; the last is client
    sess,         \* session -> "none" | "open" | "closed" (client.Close called)
    closeCalls,   \* session -> number of client.Close calls
    handlers,     \* session -> event names registered with client.On
    connUp,       \* session -> the connection is up (the transport reads it)
    errCh,        \* session -> buffer of that session's errCh
    errBlocked,   \* session -> failure handlers blocked in errCh <- ...
    nerrs,        \* "error" events reported so far
    goon,         \* doConnect's first result
    err,          \* doConnect's second result
    result,       \* what subscribe returned
    stopQ,        \* the value the caller is blocked sending on stopChan
                  \* (<<>>: none); stopChan is unbuffered
    stopClosed,   \* stopChan is closed
    nsent,        \* values the caller has sent
    ctlRecv,      \* history: what the select received from stopChan
    failRecv,     \* history: what the select received from errCh
    recvInAttempt,\* history: receives on stopChan in the current doConnect
    nextMsg,      \* next event the transport will dispatch
    msgSess,      \* event -> session it was dispatched on (0: not yet)
    inflight,     \* events whose handler is blocked in dataChan <- ...
    overlap,      \* history: a handler was invoked while another had not returned
    received      \* what the consumer has read from dataChan, in order

vars == <<pc, attempts, created, sess, closeCalls, handlers, connUp, errCh,
          errBlocked, nerrs, goon, err, result, stopQ, stopClosed, nsent,
          ctlRecv, failRecv, recvInAttempt, nextMsg, msgSess, inflight,
          overlap, received>>

subVars == <<pc, attempts, created, sess, closeCalls, handlers, goon, err,
             result, recvInAttempt>>
callerVars == <<stopQ, stopClosed, nsent>>
failVars == <<connUp, errCh, errBlocked>>
msgVars == <<nextMsg, msgSess, inflight, overlap, received>>

\* An error value: its text and the session (channel id) it names.
Err(kind, s) == [kind |-> kind, sess |-> s]
nil == Err("nil", 0)
none == Err("none", 0)

client == created

Last(q) == q[Len(q)]
Range(q) == {q[i] : i \in 1..Len(q)}

Init ==
    /\ pc = "loop"
    /\ attempts = 0
    /\ created = 0
    /\ sess = [s \in Sessions |-> "none"]
    /\ closeCalls = [s \in Sessions |-> 0]
    /\ handlers = [s \in Sessions |-> {}]
    /\ connUp = [s \in Sessions |-> FALSE]
    /\ errCh = [s \in Sessions |-> <<>>]
    /\ errBlocked = [s \in Sessions |-> <<>>]
    /\ nerrs = 0
    /\ goon = FALSE
    /\ err = none
    /\ result = none
    /\ stopQ = <<>>
    /\ stopClosed = FALSE
    /\ nsent = 0
    /\ ctlRecv = <<>>
    /\ failRecv = none
    /\ recvInAttempt = 0
    /\ nextMsg = 1
    /\ msgSess = [m \in Msgs |-> 0]
    /\ inflight = {}
    /\ overlap = FALSE
    /\ received = <<>>

(***************************************************************************)
(* The transport's side of client.On and client.Close.                     *)
(***************************************************************************)

\* errCh <- e in a failure handler: buffered while there is room, otherwise
\* the handler blocks.
postCapOne(s, kind) ==
    IF Len(errCh[s]) < errChCap - 1
    THEN /\ errCh' = [errCh EXCEPT ![s] = Append(@, Err(kind, s))]
         /\ UNCHANGED errBlocked
    ELSE /\ errBlocked' = [errBlocked EXCEPT ![s] = Append(@, Err(kind, s))]
         /\ UNCHANGED errCh

post(s, kind) ==
    IF Len(errCh[s]) < errChCap
    THEN /\ errCh' = [errCh EXCEPT ![s] = Append(@, Err(kind, s))]
         /\ UNCHANGED errBlocked
    ELSE /\ errBlocked' = [errBlocked EXCEPT ![s] = Append(@, Err(kind, s))]
         /\ UNCHANGED errCh

\* client.Close(): the connection goes down, and a connection that was up
\* reports its disconnection to the handler registered for it. The handler
\* runs as an execution unit of the transport: with errCh full it blocks
\* there (errBlocked), and Close itself returns. Close of a connection that
\* is already down reports nothing.
closeClient(s) ==
    /\ sess' = [sess EXCEPT ![s] = "closed"]
    /\ closeCalls' = [closeCalls EXCEPT ![s] = @ + 1]
    /\ connUp' = [connUp EXCEPT ![s] = FALSE]
    /\ IF connUp[s] /\ OnDisconnection \in handlers[s]
       THEN post(s, "websocket disconnected")
       ELSE UNCHANGED <<errCh, errBlocked>>

(***************************************************************************)
(* subscribe                                                               *)
(***************************************************************************)

\* The order in which makeClient registers the handlers, and what the wrapped
\* error says when a registration fails.
eventOf(stage) ==
    CASE stage = "onDisconnection" -> OnDisconnection
      [] stage = "onError" -> OnError
      [] stage = "onMethod" -> method

nextStageSkipMethod(stage) ==
    CASE stage = "onDisconnection" -> "onError"
      [] stage = "onError" -> "select"
      [] stage = "onMethod" -> "select"

nextStageSkipError(stage) ==
    CASE stage = "onDisconnection" -> "onMethod"
      [] stage = "onError" -> "onMethod"
      [] stage = "onMethod" -> "select"

nextStage(stage) ==
    CASE stage = "onDisconnection" -> "onError"
      [] stage = "onError" -> "onMethod"
      [] stage = "onMethod" -> "select"

setupError(stage) ==
    CASE stage = "onDisconnection" -> "failed to setup disconnect handler"
      [] stage = "onError" -> "failed to setup error handler"
      [] stage = "onMethod" -> "failed to setup message handler"

Stages == {"onDisconnection", "onError", "onMethod"}

\* for { doConnect() }: errCh is made, makeClient dials, and the dial fails.
DialFail ==
    /\ pc = "loop"
    /\ attempts' = attempts + 1
    /\ recvInAttempt' = 0
    /\ goon' = FALSE
    /\ err' = Err("coincap: ws dial error", 0)
    /\ result' = err'
    /\ pc' = "done"
    /\ UNCHANGED <<created, sess, closeCalls, handlers, failVars, nerrs,
                   callerVars, ctlRecv, failRecv, msgVars>>

\* for { doConnect() }: errCh is made, makeClient dials, and the dial succeeds.
DialOk ==
    /\ pc = "loop"
    /\ attempts' = attempts + 1
    /\ recvInAttempt' = 0
    /\ created' = created + 1
    /\ sess' = [sess EXCEPT ![created'] = "open"]
    /\ connUp' = [connUp EXCEPT ![created'] = TRUE]
    /\ pc' = "onDisconnection"
    /\ UNCHANGED <<closeCalls, handlers, errCh, errBlocked, nerrs, goon, err,
                   result, callerVars, ctlRecv, failRecv, msgVars>>

\* client.On(...) returns nil.
OnOk ==
    /\ pc \in Stages
    /\ handlers' = [handlers EXCEPT ![client] = @ \cup {eventOf(pc)}]
    /\ pc' = nextStage(pc)
    /\ UNCHANGED <<attempts, created, sess, closeCalls, failVars, nerrs, goon,
                   err, result, recvInAttempt, callerVars, ctlRecv, failRecv,
                   msgVars>>

\* makeClient's deferred function closes the client when err is not nil.
makeClientDeferNever(e) == FALSE

makeClientDefer(e) == e # nil

OnFailIgnored ==
    /\ pc \in Stages
    /\ pc' = nextStage(pc)
    /\ UNCHANGED <<attempts, created, sess, closeCalls, handlers, failVars,
                   nerrs, goon, err, result, recvInAttempt, callerVars,
                   ctlRecv, failRecv, msgVars>>

\* client.On(...) returns an error: makeClient wraps it, its deferred function
\* runs, doConnect returns (false, err) and subscribe returns err.
OnFail ==
    /\ pc \in Stages
    /\ goon' = FALSE
    /\ err' = Err(setupError(pc), client)
    /\ IF makeClientDefer(err')
       THEN closeClient(client)
       ELSE UNCHANGED <<sess, closeCalls, failVars>>
    /\ result' = err'
    /\ pc' = "done"
    /\ UNCHANGED <<attempts, created, handlers, nerrs, recvInAttempt,
                   callerVars, ctlRecv, failRecv, msgVars>>

\* case err := <-errCh: return false, err
selectErrResultNil(e) == [goon |-> FALSE, err |-> nil]

selectErrResultRetry(e) == [goon |-> TRUE, err |-> e]

selectErrResult(e) == [goon |-> FALSE, err |-> e]

SelectErrShared ==
    /\ pc = "select"
    /\ \E s \in 1..client :
          /\ errCh[s] # <<>>
          /\ LET e == Head(errCh[s])
                 r == selectErrResult(e)
             IN /\ failRecv' = e
                /\ goon' = r.goon
                /\ err' = r.err
          /\ errCh' = [errCh EXCEPT ![s] = Tail(@)]
    /\ pc' = "defer"
    /\ UNCHANGED <<attempts, created, sess, closeCalls, handlers, connUp,
                   errBlocked, nerrs, result, recvInAttempt, callerVars,
                   ctlRecv, msgVars>>

SelectErr ==
    /\ pc = "select"
    /\ errCh[client] # <<>>
    /\ LET e == Head(errCh[client])
           r == selectErrResult(e)
       IN /\ failRecv' = e
          /\ goon' = r.goon
          /\ err' = r.err
    /\ IF errBlocked[client] # <<>>
       THEN /\ errCh' = [errCh EXCEPT ![client] =
                            Append(Tail(@), Head(errBlocked[client]))]
            /\ errBlocked' = [errBlocked EXCEPT ![client] = Tail(@)]
       ELSE /\ errCh' = [errCh EXCEPT ![client] = Tail(@)]
            /\ UNCHANGED errBlocked
    /\ pc' = "defer"
    /\ UNCHANGED <<attempts, created, sess, closeCalls, handlers, connUp,
                   nerrs, result, recvInAttempt, callerVars, ctlRecv, msgVars>>

\* case val, ok := <-stopChan: return ok && !val, nil
stopDecisionAlways(val, ok) == ok

stopDecisionIgnoreOk(val, ok) == ~val

stopDecisionNever(val, ok) == FALSE

stopDecision(val, ok) == ok /\ ~val

signalName(val, ok) ==
    IF ~ok THEN "closed" ELSE IF val THEN "stop" ELSE "reset"

\* The stopChan case of the select can proceed: a sender is waiting, or the
\* channel is closed.
canReceiveStopIdle == (stopQ # <<>> \/ stopClosed) /\ inflight = {}

canReceiveStop == stopQ # <<>> \/ stopClosed

SelectStop ==
    /\ pc = "select"
    /\ canReceiveStop
    /\ LET ok == stopQ # <<>>
           val == IF ok THEN Head(stopQ) ELSE FALSE
       IN /\ goon' = stopDecision(val, ok)
          /\ err' = nil
          /\ ctlRecv' = Append(ctlRecv, signalName(val, ok))
          /\ stopQ' = IF ok THEN Tail(stopQ) ELSE stopQ
    /\ recvInAttempt' = recvInAttempt + 1
    /\ pc' = "defer"
    /\ UNCHANGED <<attempts, created, sess, closeCalls, handlers, failVars,
                   nerrs, result, stopClosed, nsent, failRecv, msgVars>>

\* doConnect returns: the deferred client.Close() runs, then subscribe either
\* returns err or loops.
DeferNoClose ==
    /\ pc = "defer"
    /\ IF goon
       THEN pc' = "loop" /\ UNCHANGED result
       ELSE pc' = "done" /\ result' = err
    /\ UNCHANGED <<attempts, created, sess, closeCalls, handlers, failVars,
                   nerrs, goon, err, recvInAttempt, callerVars, ctlRecv,
                   failRecv, msgVars>>

DeferFlush ==
    /\ pc = "defer"
    /\ closeClient(client)
    /\ IF goon
       THEN pc' = "loop" /\ UNCHANGED result
       ELSE pc' = "done" /\ result' = err
    /\ inflight' = {}
    /\ received' = IF inflight = {} THEN received
                   ELSE Append(received, CHOOSE m \in inflight : TRUE)
    /\ UNCHANGED <<attempts, created, handlers, nerrs, goon, err,
                   recvInAttempt, callerVars, ctlRecv, failRecv, nextMsg,
                   msgSess, overlap>>

Defer ==
    /\ pc = "defer"
    /\ closeClient(client)
    /\ IF goon
       THEN pc' = "loop" /\ UNCHANGED result
       ELSE pc' = "done" /\ result' = err
    /\ UNCHANGED <<attempts, created, handlers, nerrs, goon, err,
                   recvInAttempt, callerVars, ctlRecv, failRecv, msgVars>>

(***************************************************************************)
(* The transport: what it reports to the registered handlers.              *)
(***************************************************************************)

\* The connection drops: the disconnect handler, if registered, posts.
Drop(s) ==
    /\ connUp[s]
    /\ connUp' = [connUp EXCEPT ![s] = FALSE]
    /\ IF OnDisconnection \in handlers[s]
       THEN post(s, "websocket disconnected")
       ELSE UNCHANGED <<errCh, errBlocked>>
    /\ UNCHANGED <<subVars, nerrs, callerVars, ctlRecv, failRecv, msgVars>>

\* An "error" event: the error handler posts.
ErrorEvent(s) ==
    /\ connUp[s]
    /\ OnError \in handlers[s]
    /\ nerrs < MaxErrs
    /\ nerrs' = nerrs + 1
    /\ post(s, "websocket error")
    /\ UNCHANGED <<subVars, connUp, callerVars, ctlRecv, failRecv, msgVars>>

\* The handler of SubscribeTrades returns when its send on dataChan is done.
handlerReturnedAtOnce(m, pending) == TRUE

handlerReturned(m, pending) == m \notin pending

\* A "trades" event arrives on a session that has the message handler: the
\* transport invokes the handler, which blocks in dataChan <- ... (an event
\* with no handler registered is discarded by the transport).
Dispatch(s) ==
    /\ connUp[s]
    /\ method \in handlers[s]
    /\ nextMsg <= MaxMsgs
    /\ nextMsg' = nextMsg + 1
    /\ msgSess' = [msgSess EXCEPT ![nextMsg] = s]
    /\ inflight' = inflight \cup {nextMsg}
    /\ overlap' = (overlap \/ \E m \in 1..(nextMsg - 1) :
                                 ~handlerReturned(m, inflight))
    /\ UNCHANGED <<subVars, failVars, nerrs, callerVars, ctlRecv, failRecv,
                   received>>

HandlerSendAgain(m) ==
    /\ m \in inflight
    /\ received' = Append(received, m)
    /\ UNCHANGED <<subVars, failVars, nerrs, callerVars, ctlRecv, failRecv,
                   nextMsg, msgSess, inflight, overlap>>

\* dataChan <- &Trade{...} completes: the consumer reads the message.
HandlerSend(m) ==
    /\ m \in inflight
    /\ inflight' = inflight \ {m}
    /\ received' = Append(received, m)
    /\ UNCHANGED <<subVars, failVars, nerrs, callerVars, ctlRecv, failRecv,
                   nextMsg, msgSess, overlap>>

(***************************************************************************)
(* The caller: the other end of stopChan.                                  *)
(***************************************************************************)

\* stopChan <- v: the caller blocks until the select takes the value.
CallerSend(v) ==
    /\ ~stopClosed
    /\ nsent < MaxSignals
    /\ stopQ = <<>>
    /\ stopQ' = Append(stopQ, v)
    /\ nsent' = nsent + 1
    /\ UNCHANGED <<subVars, failVars, nerrs, stopClosed, ctlRecv, failRecv,
                   msgVars>>

\* close(stopChan), by a caller that is not blocked sending.
CallerClose ==
    /\ ~stopClosed
    /\ stopQ = <<>>
    /\ stopClosed' = TRUE
    /\ UNCHANGED <<subVars, failVars, nerrs, stopQ, nsent, ctlRecv, failRecv,
                   msgVars>>

Subscribe == DialFail \/ DialOk \/ OnOk \/ OnFail \/ SelectErr \/ SelectStop \/ Defer

Next ==
    \/ DialFail
    \/ DialOk
    \/ OnOk
    \/ OnFail
    \/ SelectErr
    \/ SelectStop
    \/ Defer
    \/ \E s \in Sessions : Drop(s)
    \/ \E s \in Sessions : ErrorEvent(s)
    \/ \E s \in Sessions : Dispatch(s)
    \/ \E m \in Msgs : HandlerSend(m)
    \/ \E v \in BOOLEAN : CallerSend(v)
    \/ CallerClose

Spec == Init /\ [][Next]_vars

\* subscribe runs on its own goroutine and the library calls it makes
\* return. Nothing is assumed of the consumer: it may never read dataChan.
SubscribeFairSpec == Spec /\ WF_vars(Subscribe)

\* The same, with a consumer that keeps reading dataChan.
FairSpec == SubscribeFairSpec /\ WF_vars(\E m \in Msgs : HandlerSend(m))

(***************************************************************************)
(* Properties                                                              *)
(***************************************************************************)

Closed(s) == sess[s] = "closed"
OpenSessions == {s \in Sessions : sess[s] = "open"}
CtlLast(names) == ctlRecv # <<>> /\ Last(ctlRecv) \in names
EstablishmentErrors ==
    {"coincap: ws dial error"} \cup {setupError(st) : st \in Stages}
Ordered(q) == \A i, j \in 1..Len(q) : i < j => q[i] < q[j]

\* C1: when subscribe has returned after receiving N Resets and then one Stop,
\* it returned nil, exactly N+1 sessions were created, every one of them was
\* closed, once; and a session is only ever created when all the earlier ones
\* are closed.
C1_ResetsThenStop ==
    /\ [](pc = "done" /\ CtlLast({"stop"}) =>
            /\ \A i \in 1..(Len(ctlRecv) - 1) : ctlRecv[i] = "reset"
            /\ result = nil
            /\ created = Len(ctlRecv)
            /\ attempts = created
            /\ \A s \in 1..created : Closed(s) /\ closeCalls[s] = 1)
    /\ [][created' # created => \A s \in 1..created : Closed(s)]_vars

C1_Witness ==
    pc = "done" /\ ctlRecv = <<"reset", "stop">> /\ created = 2 /\ result = nil

\* C2: at most one session is open (created and not yet closed) in any state,
\* whatever the signals, failures and creation errors.
C2_AtMostOneOpen == Cardinality(OpenSessions) <= 1

C2_Witness == created = 2 /\ sess[2] = "open" /\ sess[1] = "closed"

\* C3: whenever subscribe is at the top of its loop or has returned, every
\* session a dial created is closed.
C3_ClosedOnEveryExit ==
    pc \in {"loop", "done"} => \A s \in 1..created : Closed(s)

C3_Witness ==
    /\ pc = "done"
    /\ result.kind = "failed to setup message handler"
    /\ Closed(client)

\* C4: once the select has received Stop, or found stopChan closed, subscribe
\* is returning nil: it creates no further session, closes the current one and
\* returns nil.
C4_StopReturnsNil ==
    CtlLast({"stop", "closed"}) =>
        /\ pc \in {"defer", "done"}
        /\ ~goon
        /\ err = nil
        /\ created = Len(ctlRecv)
        /\ attempts = created
        /\ pc = "done" => result = nil /\ Closed(client)

C4_Witness ==
    pc = "done" /\ ctlRecv = <<"closed">> /\ nsent = 0 /\ result = nil

\* C5: the step that receives Reset makes doConnect return (true, nil); the
\* step after it closes the session and goes back to the top of the loop
\* without returning; and from there a new attempt is made.
C5_ResetReconnects ==
    /\ [][(ctlRecv' # ctlRecv /\ Last(ctlRecv') = "reset") =>
            goon' /\ err' = nil /\ pc' = "defer" /\ result' = none]_vars
    /\ [][(pc = "defer" /\ goon /\ pc' # pc) =>
            pc' = "loop" /\ sess'[client] = "closed" /\ result' = none]_vars
    /\ [](CtlLast({"reset"}) => <>(attempts = Len(ctlRecv) + 1))

C5_Witness ==
    ctlRecv = <<"reset">> /\ attempts = 2 /\ created = 2 /\ pc = "select"

\* C6: an attempt whose dial or whose handler registration fails ends at once
\* in subscribe returning that error, and no receive on stopChan happens
\* between the start of that attempt and the return.
C6_EstablishmentError ==
    /\ [][(pc = "loop" /\ attempts' # attempts /\ created' = created) =>
            /\ pc' = "done"
            /\ result' = Err("coincap: ws dial error", 0)
            /\ ctlRecv' = ctlRecv /\ stopQ' = stopQ]_vars
    /\ [][(pc \in Stages /\ pc' # pc /\ handlers' = handlers) =>
            /\ pc' = "done"
            /\ result' = Err(setupError(pc), client)
            /\ ctlRecv' = ctlRecv /\ stopQ' = stopQ]_vars
    /\ [](pc = "done" /\ result.kind \in EstablishmentErrors =>
            /\ recvInAttempt = 0
            /\ attempts = Len(ctlRecv) + 1
            /\ \A i \in 1..Len(ctlRecv) : ctlRecv[i] = "reset")

C6_Witness ==
    /\ pc = "done"
    /\ result.kind = "failed to setup error handler"
    /\ ctlRecv = <<"reset">>

\* C7: once the select has received a failure from errCh, that failure is the
\* one the live session's handlers posted, it is what doConnect returns and
\* what subscribe returns, and the session is closed by exactly one Close.
C7_FailureReturned ==
    failRecv # none =>
        /\ failRecv.sess = client
        /\ failRecv.kind \in {"websocket disconnected", "websocket error"}
        /\ pc \in {"defer", "done"}
        /\ ~goon
        /\ err = failRecv
        /\ pc = "done" =>
              result = failRecv /\ Closed(client) /\ closeCalls[client] = 1

C7_Witness ==
    pc = "done" /\ failRecv.kind = "websocket disconnected" /\ result = failRecv

StuckHandler == inflight # {}

\* C8: with a handler blocked for ever in its send on dataChan, a Stop that
\* is pending on stopChan while subscribe waits leads to subscribe returning:
\* nil when the Stop is what the select took, a failure otherwise.
C8_StopNotStarved ==
    [](StuckHandler /\ pc = "select" /\ stopQ # <<>> /\ Head(stopQ)
          => <>(/\ pc = "done"
                /\ failRecv = none => result = nil /\ CtlLast({"stop"})))

C8_Witness ==
    /\ StuckHandler
    /\ received = <<>>
    /\ pc = "done"
    /\ result = nil
    /\ CtlLast({"stop"})

Forwarded == 1..(nextMsg - 1)

InFlightAfterReset == {m \in inflight : msgSess[m] >= 2}

\* C10: a session that subscribe waits on has the message handler registered,
\* so the transport hands it the events of a session made after a Reset as it
\* does on the first; a handler's event leaves the handler only by being read
\* by the consumer; and, with a consumer that keeps reading, no handler of an
\* event of a session made after a Reset stays blocked for ever.
C10_DeliversAfterReset ==
    /\ [](pc = "select" => method \in handlers[client])
    /\ [](Range(received) = Forwarded \ inflight)
    /\ []<>(InFlightAfterReset = {})

C10_Witness ==
    /\ ctlRecv = <<"reset">>
    /\ Len(received) = 2
    /\ msgSess[received[1]] = 1
    /\ msgSess[received[2]] = 2

\* Handlers that are blocked although the session they belong to is closed:
\* message handlers in dataChan <- ..., failure handlers in errCh <- ...
MsgBlockedOfClosed == {m \in inflight : sess[msgSess[m]] = "closed"}
FailBlockedOfClosed == {s \in Sessions : sess[s] = "closed" /\ errBlocked[s] # <<>>}

\* C11: no handler of a closed session stays blocked for ever: again and
\* again there is a moment at which none of them is blocked (a handler is
\* invoked once and never blocks twice).
C11_NoHandlerBlockedForever ==
    []<>(MsgBlockedOfClosed = {} /\ FailBlockedOfClosed = {})


FailureKinds == {"websocket disconnected", "websocket error"}

\* C12 as stated: subscribe has returned only after Stop or a closed stopChan
\* (with nil), or with a session-creation error.
C12_Original ==
    pc = "done" =>
        \/ CtlLast({"stop", "closed"}) /\ result = nil
        \/ result.kind \in EstablishmentErrors

\* C12: subscribe has returned for exactly one of three reasons: the select
\* took Stop or found stopChan closed (it returns nil); an attempt, the first
\* or the one that follows the last Reset, failed to establish its session (it
\* returns that error); or the select took a failure from the errCh of the
\* session of that attempt (it returns that failure). It never returns as the
\* response to a Reset, and returns with no signal taken only with an error.
C12_TerminationCauses ==
    pc = "done" =>
        \/ /\ CtlLast({"stop", "closed"})
           /\ result = nil
           /\ failRecv = none
        \/ /\ ~CtlLast({"stop", "closed"})
           /\ result.kind \in EstablishmentErrors
           /\ failRecv = none
           /\ attempts = Len(ctlRecv) + 1
        \/ /\ ~CtlLast({"stop", "closed"})
           /\ result.kind \in FailureKinds
           /\ result = failRecv
           /\ attempts = Len(ctlRecv) + 1
           /\ failRecv.sess = created

C12_Witness ==
    /\ pc = "done"
    /\ nsent = 0
    /\ ~stopClosed
    /\ result.kind = "websocket error"


NumResets == Cardinality({i \in 1..Len(ctlRecv) : ctlRecv[i] = "reset"})
ReconnectPending == pc = "loop" \/ (pc = "defer" /\ goon)

\* C13: an attempt to create a session is made only as the first one or as
\* the response to a Reset that was just received, never after a failure was
\* taken from errCh, after Stop or after stopChan was found closed; so the
\* attempts made are the Resets received plus one (the attempt a received
\* Reset has not yet started aside), and all of them created a session except
\* a last one whose dial failed.
C13_OnlyResetReconnects ==
    /\ [][attempts' # attempts =>
            /\ attempts = 0 \/ CtlLast({"reset"})
            /\ failRecv = none
            /\ attempts' = NumResets + 1]_vars
    /\ [](attempts = NumResets + (IF ReconnectPending THEN 0 ELSE 1))
    /\ [](\/ created = attempts
          \/ /\ created = attempts - 1
             /\ pc = "done"
             /\ result.kind = "coincap: ws dial error")

C13_Witness ==
    /\ pc = "done"
    /\ ctlRecv = <<"reset">>
    /\ result.kind = "coincap: ws dial error"
    /\ attempts = 2
    /\ created = 1


AllHandlers == {OnDisconnection, OnError, method}
FailuresPosted(s) == Len(errCh[s]) + Len(errBlocked[s])

\* C14 as stated, in its last part: when a failure of the live session is
\* waiting in errCh, the step by which subscribe leaves the wait makes it
\* return an error.
C14_Original ==
    [][(pc = "select" /\ errCh[client] # <<>> /\ pc' # pc) => err' # nil]_vars

\* C14: subscribe waits in the select only on a session on which the
\* disconnect, error and message handlers are all registered; a disconnection
\* or error the transport reports during the wait is posted to that session's
\* errCh; with a failure waiting there subscribe does not stay in the wait;
\* and when the select takes the failure, doConnect returns it as the error
\* (the select may take a pending control signal instead).
C14_LiveAfterRegistration ==
    /\ [](pc = "select" => handlers[client] = AllHandlers)
    /\ [][(pc = "select" /\ pc' = pc
             /\ (nerrs' # nerrs \/ connUp'[client] # connUp[client])) =>
            FailuresPosted(client)' = FailuresPosted(client) + 1]_vars
    /\ [][(pc = "select" /\ failRecv' # failRecv) =>
            /\ failRecv' = Head(errCh[client])
            /\ err' = failRecv'
            /\ ~goon']_vars
    /\ []<>(~(pc = "select" /\ errCh[client] # <<>>))

C14_Witness ==
    /\ pc = "done"
    /\ ctlRecv = <<>>
    /\ result.kind = "websocket disconnected"
    /\ handlers[result.sess] = AllHandlers
    /\ nerrs = 0


SendsOf(m) == Cardinality({i \in 1..Len(received) : received[i] = m})

\* C15: the consumer has read each event exactly once if the transport handed
\* it to the handler and the handler's send is done, and not at all
\* otherwise: no event is sent twice, across reconnects included.
C15_ExactlyOneSend ==
    \A m \in Msgs :
        SendsOf(m) = IF m < nextMsg /\ m \notin inflight THEN 1 ELSE 0

C15_Witness ==
    /\ created = 2
    /\ msgSess[1] = 1
    /\ msgSess[2] = 2
    /\ received = <<1, 2>>
    /\ inflight = {}


\* C16: a step of subscribe leaves stopChan as it is, except that the select
\* takes the value a sender offers (it closes nothing and sends nothing), and
\* leaves dataChan alone; the consumer gets a message only through the send
\* of a handler that was blocked on dataChan, which is never a step of
\* subscribe.
C16_ChannelsOnlyUsed ==
    /\ [][pc' # pc =>
            /\ stopClosed' = stopClosed
            /\ nsent' = nsent
            /\ stopQ' = IF pc = "select" /\ ctlRecv' # ctlRecv /\ stopQ # <<>>
                        THEN Tail(stopQ)
                        ELSE stopQ
            /\ received' = received
            /\ inflight' = inflight]_vars
    /\ [][received' # received =>
            /\ pc' = pc
            /\ \E m \in inflight :
                  /\ received' = Append(received, m)
                  /\ inflight' = inflight \ {m}]_vars

C16_Witness ==
    /\ pc = "done"
    /\ ctlRecv = <<"reset", "stop">>
    /\ Len(received) = 1
    /\ inflight # {}
    /\ ~stopClosed


\* C17: the errCh of a session holds only failures of that session; the
\* select takes a failure only from the errCh of the session it waits on,
\* which is open, and leaves the errCh of every other session as it is; so
\* the failure subscribe returns is one of its last session, never one that
\* the handlers of an earlier, closed session posted.
C17_OwnFailureChannel ==
    /\ [](\A s \in Sessions :
            /\ \A i \in 1..Len(errCh[s]) : errCh[s][i].sess = s
            /\ \A i \in 1..Len(errBlocked[s]) : errBlocked[s][i].sess = s)
    /\ [][failRecv' # failRecv =>
            /\ failRecv'.sess = client
            /\ sess[client] = "open"
            /\ \A s \in Sessions \ {client} :
                  errCh'[s] = errCh[s] /\ errBlocked'[s] = errBlocked[s]]_vars
    /\ [](pc = "done" /\ result.kind \in FailureKinds => result.sess = created)

C17_Witness ==
    /\ pc = "done"
    /\ created = 2
    /\ errCh[1] = <<Err("websocket disconnected", 1)>>
    /\ failRecv = none
    /\ result = nil


\* Failures the handlers of session s have posted or are blocked posting:
\* those in its errCh, those blocked, and the one the select took.
TakenFrom(s) == IF failRecv # none /\ failRecv.sess = s THEN 1 ELSE 0
FailuresReported(s) == Len(errCh[s]) + Len(errBlocked[s]) + TakenFrom(s)

\* C18: on a session that has reported at most two failures no failure
\* handler is blocked posting, whether subscribe still waits on the session
\* or not; and errCh never holds more than its capacity.
C18_PostNeverBlocks ==
    \A s \in Sessions :
        /\ Len(errCh[s]) <= errChCap
        /\ FailuresReported(s) <= errChCap => errBlocked[s] = <<>>

C18_Witness ==
    \E s \in Sessions :
        /\ sess[s] = "closed"
        /\ Len(errCh[s]) = 2
        /\ TakenFrom(s) = 0
        /\ errBlocked[s] = <<>>


\* C19: a handler's send on dataChan completes only while the session the
\* event was dispatched on is still open, and never after subscribe has
\* returned.
C19_NoSendAfterClose ==
    [][received' # received =>
          /\ sess[msgSess[Last(received')]] = "open"
          /\ pc # "done"]_vars

====
